---- MODULE Spec2Model ----
(***************************************************************************)
(* Model of src/raw.rs of unix-clock: the process-wide cache of the vDSO    *)
(* clock_gettime entry point (get_impl), Timespec::now, and the Timespec    *)
(* arithmetic sub_timespec / checked_add_duration / checked_sub_duration.   *)
(*                                                                          *)
(* 64-bit quantities do not fit the model checker's machine integers, so    *)
(* an i64/u64 value is kept as a sign and four base-10^9 limbs (least       *)
(* significant first).  All 64-bit constants below are the real ones.       *)
(***************************************************************************)
EXTENDS Integers, Sequences, FiniteSets, TLC

\* const NSEC_PER_SEC: u64 = 1_000_000_000; also the limb base.
NSEC_PER_SEC == 1000000000

----------------------------------------------------------------------------
(* Wide integers: [neg |-> BOOLEAN, mag |-> <<l1, l2, l3, l4>>], value      *)
(* (+/-) l1 + l2*10^9 + l3*10^18 + l4*10^27, zero always with neg = FALSE.  *)

MagZero == <<0, 0, 0, 0>>

MagLess(a, b) ==
    \/ a[4] < b[4]
    \/ a[4] = b[4] /\ a[3] < b[3]
    \/ a[4] = b[4] /\ a[3] = b[3] /\ a[2] < b[2]
    \/ a[4] = b[4] /\ a[3] = b[3] /\ a[2] = b[2] /\ a[1] < b[1]

MagAdd(a, b) ==
    LET s1 == a[1] + b[1]
        s2 == a[2] + b[2] + (s1 \div NSEC_PER_SEC)
        s3 == a[3] + b[3] + (s2 \div NSEC_PER_SEC)
        s4 == a[4] + b[4] + (s3 \div NSEC_PER_SEC)
    IN  <<s1 % NSEC_PER_SEC, s2 % NSEC_PER_SEC, s3 % NSEC_PER_SEC, s4>>

\* a - b for a >= b
MagSub(a, b) ==
    LET d1 == a[1] - b[1]
        d2 == a[2] - b[2] - (IF d1 < 0 THEN 1 ELSE 0)
        d3 == a[3] - b[3] - (IF d2 < 0 THEN 1 ELSE 0)
        d4 == a[4] - b[4] - (IF d3 < 0 THEN 1 ELSE 0)
    IN  <<d1 % NSEC_PER_SEC, d2 % NSEC_PER_SEC, d3 % NSEC_PER_SEC, d4>>

Z(neg, mag) == [neg |-> neg /\ mag # MagZero, mag |-> mag]

\* a machine-sized integer n, |n| < 2^31
ZInt(n) ==
    LET m == IF n < 0 THEN 0 - n ELSE n
    IN  Z(n < 0, <<m % NSEC_PER_SEC, m \div NSEC_PER_SEC, 0, 0>>)

ZNeg(x) == Z(~x.neg, x.mag)

ZAdd(x, y) ==
    IF x.neg = y.neg THEN Z(x.neg, MagAdd(x.mag, y.mag))
    ELSE IF MagLess(x.mag, y.mag) THEN Z(y.neg, MagSub(y.mag, x.mag))
    ELSE Z(x.neg, MagSub(x.mag, y.mag))

ZSub(x, y) == ZAdd(x, ZNeg(y))

ZLess(x, y) ==
    IF x.neg # y.neg THEN x.neg
    ELSE IF x.neg THEN MagLess(y.mag, x.mag)
    ELSE MagLess(x.mag, y.mag)

ZLeq(x, y) == ~ZLess(y, x)

ZAbs(x) == Z(FALSE, x.mag)

\* x * 10^9, for |x| < 10^27
ZShift(x) == Z(x.neg, <<0, x.mag[1], x.mag[2], x.mag[3]>>)

\* const I64_MAX: u64 = 9_223_372_036_854_775_807;
I64_MAX == Z(FALSE, <<854775807, 223372036, 9, 0>>)
\* i64::MIN = -9_223_372_036_854_775_808
I64_MIN == Z(TRUE, <<854775808, 223372036, 9, 0>>)
\* u64::MAX = 18_446_744_073_709_551_615
U64_MAX == Z(FALSE, <<709551615, 446744073, 18, 0>>)
\* 2^64
TwoTo64 == Z(FALSE, <<709551616, 446744073, 18, 0>>)

InI64(x) == ZLeq(I64_MIN, x) /\ ZLeq(x, I64_MAX)
InU64(x) == ~x.neg /\ ZLeq(x, U64_MAX)

\* two's-complement wrap into i64 of a value in (-2^64, 2^64)
WrapI64(x) ==
    IF ZLess(I64_MAX, x) THEN ZSub(x, TwoTo64)
    ELSE IF ZLess(x, I64_MIN) THEN ZAdd(x, TwoTo64)
    ELSE x

\* `v as u64` of an i64
AsU64(x) == IF x.neg THEN ZAdd(x, TwoTo64) ELSE x

----------------------------------------------------------------------------
(* Checked / overflowing 64-bit primitives used by the arithmetic.          *)

ZZero == ZInt(0)
ZOne  == ZInt(1)

\* Option<i64>
SomeI64(v) == [some |-> TRUE, v |-> v]
NoneI64    == [some |-> FALSE, v |-> ZZero]

\* i64::checked_add / i64::checked_sub
checked_add(x, y) ==
    LET m == ZAdd(x, y) IN IF InI64(m) THEN SomeI64(m) ELSE NoneI64
checked_sub(x, y) ==
    LET m == ZSub(x, y) IN IF InI64(m) THEN SomeI64(m) ELSE NoneI64

\* the `-` operator on i64: the wrapped value and whether the exact
\* difference left the i64 range (a panic when the build checks overflow,
\* a silent wrap when it does not)
I64Sub(x, y) ==
    LET m == ZSub(x, y) IN [v |-> WrapI64(m), ovf |-> ~InI64(m)]

----------------------------------------------------------------------------
(* Timespec (tv_sec: i64, tv_nsec: u32) and core::time::Duration.           *)

new(secs, nsecs) == [tv_sec |-> secs, tv_nsec |-> nsecs]
secs(self)  == self.tv_sec
nsecs(self) == self.tv_nsec

\* PartialEq::eq
eq(self, other) == secs(self) = secs(other) /\ nsecs(self) = nsecs(other)

\* Ord::cmp / PartialOrd::partial_cmp: -1 Less, 0 Equal, 1 Greater
cmp(self, other) ==
    IF secs(self) # secs(other)
    THEN (IF ZLess(secs(self), secs(other)) THEN -1 ELSE 1)
    ELSE IF nsecs(self) < nsecs(other) THEN -1
    ELSE IF nsecs(self) > nsecs(other) THEN 1
    ELSE 0

ge(self, other) == cmp(self, other) >= 0
lt(self, other) == cmp(self, other) < 0

\* outcome of sub_timespec: Ok(d), Err(d) or a panic; `wrapped` records
\* that an i64 subtraction on the way left the i64 range
SubResult(tag, s, n, w) == [tag |-> tag, secs |-> s, nanos |-> n, wrapped |-> w]
SubPanic(w) == SubResult("Panic", ZZero, 0, w)

\* Duration::new(secs, nanos): carries whole seconds out of nanos and
\* panics when that carry overflows u64
DurationNew(s, n, w) ==
    IF n < NSEC_PER_SEC THEN SubResult("Ok", s, n, w)
    ELSE LET c == ZAdd(s, ZInt(n \div NSEC_PER_SEC))
         IN  IF InU64(c) THEN SubResult("Ok", c, n % NSEC_PER_SEC, w)
             ELSE SubPanic(w)

\* the `self >= other` branch of sub_timespec
sub_later(self, other, overflow_checks) ==
    IF nsecs(self) >= nsecs(other)
    THEN LET s == I64Sub(secs(self), secs(other))
         IN  IF s.ovf /\ overflow_checks THEN SubPanic(TRUE)
             ELSE DurationNew(AsU64(s.v), nsecs(self) - nsecs(other), s.ovf)
    ELSE LET s == I64Sub(secs(self), secs(other))
             t == I64Sub(s.v, ZOne)
         IN  IF (s.ovf \/ t.ovf) /\ overflow_checks THEN SubPanic(TRUE)
             ELSE DurationNew(AsU64(t.v),
                              nsecs(self) + NSEC_PER_SEC - nsecs(other),
                              s.ovf \/ t.ovf)

\* mutant: the earlier-operand branch hands the inner result on unswapped
swap_forgotten(res) == res

\* match other.sub_timespec(self) { Ok(d) => Err(d), Err(d) => Ok(d) }
swap(res) ==
    IF res.tag = "Ok" THEN [res EXCEPT !.tag = "Err"]
    ELSE IF res.tag = "Err" THEN [res EXCEPT !.tag = "Ok"]
    ELSE res

RECURSIVE sub_timespec(_, _, _)
sub_timespec(self, other, overflow_checks) ==
    IF ge(self, other) THEN sub_later(self, other, overflow_checks)
    ELSE swap(sub_timespec(other, self, overflow_checks))

\* Option<Timespec>
SomeTs(s, n) == [tag |-> "Some", tv_sec |-> s, tv_nsec |-> n]
NoneTs       == [tag |-> "None", tv_sec |-> ZZero, tv_nsec |-> 0]

checked_add_unsigned(x, y) ==
    IF ZLess(I64_MAX, y) THEN NoneI64 ELSE checked_add(x, y)

checked_sub_unsigned(x, y) ==
    IF ZLess(I64_MAX, y) THEN NoneI64 ELSE checked_sub(x, y)

\* mutant: the one-second carry is added without the overflow check
checked_add_duration_unchecked_carry(self, other) ==
    LET s == checked_add_unsigned(secs(self), other.secs)
        n == other.nanos + nsecs(self)
    IN  IF ~s.some THEN NoneTs
        ELSE IF n >= NSEC_PER_SEC
             THEN SomeTs(WrapI64(ZAdd(s.v, ZOne)), n - NSEC_PER_SEC)
             ELSE SomeTs(s.v, n)

\* mutant: the carry bumps the seconds but leaves the nanoseconds unreduced
checked_add_duration_keeps_nanos(self, other) ==
    LET s == checked_add_unsigned(secs(self), other.secs)
        n == other.nanos + nsecs(self)
    IN  IF ~s.some THEN NoneTs
        ELSE IF n >= NSEC_PER_SEC
             THEN LET c == checked_add(s.v, ZOne)
                  IN  IF c.some THEN SomeTs(c.v, n) ELSE NoneTs
             ELSE SomeTs(s.v, n)

checked_add_duration(self, other) ==
    LET s == checked_add_unsigned(secs(self), other.secs)
        n == other.nanos + nsecs(self)
    IN  IF ~s.some THEN NoneTs
        ELSE IF n >= NSEC_PER_SEC
             THEN LET c == checked_add(s.v, ZOne)
                  IN  IF c.some THEN SomeTs(c.v, n - NSEC_PER_SEC) ELSE NoneTs
             ELSE SomeTs(s.v, n)

\* mutant: the borrow refills the nanoseconds but does not take the second
checked_sub_duration_no_borrow(self, other) ==
    LET s == checked_sub_unsigned(secs(self), other.secs)
        n == nsecs(self) - other.nanos
    IN  IF ~s.some THEN NoneTs
        ELSE IF n < 0 THEN SomeTs(s.v, n + NSEC_PER_SEC)
             ELSE SomeTs(s.v, n)

\* mutant: the borrow test is `nsecs <= 0`
checked_sub_duration_borrow_on_zero(self, other) ==
    LET s == checked_sub_unsigned(secs(self), other.secs)
        n == nsecs(self) - other.nanos
    IN  IF ~s.some THEN NoneTs
        ELSE IF n <= 0
             THEN LET c == checked_sub(s.v, ZOne)
                  IN  IF c.some THEN SomeTs(c.v, n + NSEC_PER_SEC) ELSE NoneTs
             ELSE SomeTs(s.v, n)

checked_sub_duration(self, other) ==
    LET s == checked_sub_unsigned(secs(self), other.secs)
        n == nsecs(self) - other.nanos
    IN  IF ~s.some THEN NoneTs
        ELSE IF n < 0
             THEN LET c == checked_sub(s.v, ZOne)
                  IN  IF c.some THEN SomeTs(c.v, n + NSEC_PER_SEC) ELSE NoneTs
             ELSE SomeTs(s.v, n)

----------------------------------------------------------------------------
(* Input domains of the arithmetic: values within a small distance of the   *)
(* places where the code changes behaviour (zero, the ends of the i64 and   *)
(* u64 ranges, the ends of the nanosecond range).                           *)

SecNear == 1
NsNear == 2

Around(c, k) == { ZAdd(c, ZInt(i)) : i \in (0 - k)..k }

\* tv_sec: i64
SecValues ==
    { x \in Around(I64_MIN, SecNear) \cup Around(ZZero, SecNear)
            \cup Around(I64_MAX, SecNear) : InI64(x) }

\* nanoseconds below one second
NsecValid == (0..NsNear) \cup ((NSEC_PER_SEC - 1 - NsNear)..(NSEC_PER_SEC - 1))

\* tv_nsec: u32; Timespec::new does not validate it, so one second and more
\* is a value a Timespec can hold
NsecValues == NsecValid \cup (NSEC_PER_SEC..(NSEC_PER_SEC + NsNear))

Timespecs == { new(s, n) : s \in SecValues, n \in NsecValues }

\* Duration: secs u64, subsec_nanos < 10^9 by the type's own invariant
DurSecValues ==
    { x \in Around(ZZero, SecNear) \cup Around(I64_MAX, SecNear)
            \cup Around(U64_MAX, SecNear) : InU64(x) }

Durations == { [secs |-> s, nanos |-> n] : s \in DurSecValues, n \in NsecValid }

NoSub == SubResult("-", ZZero, 0, FALSE)
NoTs  == [tag |-> "-", tv_sec |-> ZZero, tv_nsec |-> 0]

----------------------------------------------------------------------------
(* get_impl: the cached vDSO entry point and clock_gettime.                 *)

\* const UNINIT = core::ptr::null_mut()
UNINIT == 0
\* const INIT_NULL = 1 as _
INIT_NULL == 1

NThreads == 2
MaxCalls == 2
MaxAddr == 2
MaxTime == 1

Threads == 1..NThreads

\* addresses the vDSO can hold the function at: mapped code, so neither the
\* null pointer nor address 1
Addrs == (INIT_NULL + 1)..MaxAddr

\* what vdso_clock_gettime(vdso()) can answer: null or the symbol's address
VdsoAnswers == {UNINIT} \cup Addrs

\* errno value of a failed clock read (EINVAL, an unsupported clock id)
Errnos == {22}

\* return values of the time source: 0, or -errno
RetValues == {0} \cup { 0 - e : e \in Errnos }

\* timestamps the time source can write (0 stands for the unwritten buffer)
KernelTimes == 1..MaxTime

\* Option<extern "C" fn(ClockId, *mut Timespec) -> usize>
NoneFn    == [some |-> FALSE, f |-> UNINIT]
SomeFn(p) == [some |-> TRUE, f |-> p]

\* mutant: the resolved pointer is stored as it is, null included
stored_raw(ptr) == ptr

\* the value the UNINIT arm stores: the sentinel for a null answer
stored(ptr) == IF ptr = UNINIT THEN INIT_NULL ELSE ptr

\* the value the UNINIT arm returns
resolved(ptr) == IF ptr = UNINIT THEN NoneFn ELSE SomeFn(ptr)

\* mutant: the `INIT_NULL => None` arm is missing
cached_without_sentinel(v) == SomeFn(v)

\* the arms `INIT_NULL => None` and `ptr => Some(transmute(ptr))`
cached(v) == IF v = INIT_NULL THEN NoneFn ELSE SomeFn(v)

\* Errno::from_ret(..) / syscall!(..) followed by .map(|_| buf.assume_init())
NoResult    == [tag |-> "-", val |-> 0]
from_ret(ret, buf) ==
    IF ret < 0 THEN [tag |-> "Err", val |-> 0 - ret]
    ELSE [tag |-> "Ok", val |-> buf]

\* mutant: a failed invocation is tried again
after_invoke_retry(ret) == IF ret < 0 THEN "invoke" ELSE "ret"

\* where clock_gettime goes after its time-source invocation returned
after_invoke(ret) == "ret"

VARIABLES
    vdso_sym,   \* the answer of the process's symbol resolver
    mo,         \* CLOCK_GETTIME_VSYSCALL: its stores in modification order
    seen,       \* per thread: the latest store of mo it has observed
    pc,         \* per thread: position inside Timespec::now
    loaded,     \* per thread: the value its load returned
    ptr,        \* per thread: the local `ptr` of the UNINIT arm
    entry,      \* per thread: what clock_gettime_vsyscall returned
    fastN,      \* per thread: vDSO invocations made by the current call
    sysN,       \* per thread: kernel entries made by the current call
    ret,        \* per thread: return value of the last invocation
    buf,        \* per thread: the timestamp the last invocation wrote
    result,     \* per thread: what the last call of now returned
    calls,      \* per thread: completed calls of now
    a, b, d,    \* arithmetic operands: Timespec, Timespec, Duration
    overflow_checks, \* whether the build panics on integer overflow
    r, r2,      \* arithmetic results
    step        \* position of the arithmetic driver

cacheVars == <<vdso_sym, mo, seen, pc, loaded, ptr, entry, fastN, sysN, ret,
               buf, result, calls>>
arithVars == <<a, b, d, overflow_checks, r, r2, step>>
vars == <<cacheVars, arithVars>>

\* the current value of the slot: the last store in modification order
Slot == mo[Len(mo)]

CacheIdle ==
    /\ mo = <<UNINIT>>
    /\ seen = [t \in Threads |-> 1]
    /\ pc = [t \in Threads |-> "idle"]
    /\ loaded = [t \in Threads |-> UNINIT]
    /\ ptr = [t \in Threads |-> UNINIT]
    /\ entry = [t \in Threads |-> NoneFn]
    /\ fastN = [t \in Threads |-> 0]
    /\ sysN = [t \in Threads |-> 0]
    /\ ret = [t \in Threads |-> 0]
    /\ buf = [t \in Threads |-> 0]
    /\ result = [t \in Threads |-> NoResult]
    /\ calls = [t \in Threads |-> 0]

ArithIdle ==
    /\ a = new(ZZero, 0)
    /\ b = new(ZZero, 0)
    /\ d = [secs |-> ZZero, nanos |-> 0]
    /\ overflow_checks = FALSE
    /\ r = NoTs
    /\ r2 = NoTs
    /\ step = "off"

Init ==
    /\ vdso_sym \in VdsoAnswers
    /\ CacheIdle
    /\ ArithIdle

\* Timespec::now(clockid) is entered: clock_gettime's locals are fresh, buf
\* is MaybeUninit::uninit() with its padding zeroed
Now(t) ==
    /\ pc[t] = "idle"
    /\ calls[t] < MaxCalls
    /\ pc' = [pc EXCEPT ![t] = "load"]
    /\ fastN' = [fastN EXCEPT ![t] = 0]
    /\ sysN' = [sysN EXCEPT ![t] = 0]
    /\ entry' = [entry EXCEPT ![t] = NoneFn]
    /\ result' = [result EXCEPT ![t] = NoResult]
    /\ ret' = [ret EXCEPT ![t] = 0]
    /\ buf' = [buf EXCEPT ![t] = 0]
    /\ UNCHANGED <<vdso_sym, mo, seen, loaded, ptr, calls, arithVars>>

\* CLOCK_GETTIME_VSYSCALL.load(Relaxed) and the match on it: a relaxed load
\* returns any store not older than the latest one the thread has observed
Load(t) ==
    /\ pc[t] = "load"
    /\ \E i \in seen[t]..Len(mo) :
        /\ seen' = [seen EXCEPT ![t] = i]
        /\ loaded' = [loaded EXCEPT ![t] = mo[i]]
        /\ IF mo[i] = UNINIT
           THEN /\ pc' = [pc EXCEPT ![t] = "resolve"]
                /\ UNCHANGED entry
           ELSE /\ pc' = [pc EXCEPT ![t] = "invoke"]
                /\ entry' = [entry EXCEPT ![t] = cached(mo[i])]
    /\ UNCHANGED <<vdso_sym, mo, ptr, fastN, sysN, ret, buf, result, calls,
                   arithVars>>

\* let ptr = vdso_clock_gettime(linux_syscalls::env::vdso())
Resolve(t) ==
    /\ pc[t] = "resolve"
    /\ ptr' = [ptr EXCEPT ![t] = vdso_sym]
    /\ pc' = [pc EXCEPT ![t] = "store"]
    /\ UNCHANGED <<vdso_sym, mo, seen, loaded, entry, fastN, sysN, ret, buf,
                   result, calls, arithVars>>

\* CLOCK_GETTIME_VSYSCALL.store(.., Relaxed) and the arm's return value
Store(t) ==
    /\ pc[t] = "store"
    /\ mo' = Append(mo, stored(ptr[t]))
    /\ seen' = [seen EXCEPT ![t] = Len(mo) + 1]
    /\ entry' = [entry EXCEPT ![t] = resolved(ptr[t])]
    /\ pc' = [pc EXCEPT ![t] = "invoke"]
    /\ UNCHANGED <<vdso_sym, loaded, ptr, fastN, sysN, ret, buf, result,
                   calls, arithVars>>

\* inner(clockid, buf.as_mut_ptr()): the in-process call
InvokeFast(t) ==
    /\ pc[t] = "invoke"
    /\ entry[t].some
    /\ \E rv \in RetValues, ts \in KernelTimes :
        /\ ret' = [ret EXCEPT ![t] = rv]
        /\ buf' = [buf EXCEPT ![t] = IF rv = 0 THEN ts ELSE @]
        /\ pc' = [pc EXCEPT ![t] = after_invoke(rv)]
    /\ fastN' = [fastN EXCEPT ![t] = @ + 1]
    /\ UNCHANGED <<vdso_sym, mo, seen, loaded, ptr, entry, sysN, result,
                   calls, arithVars>>

\* syscall!(SYS_clock_gettime, clockid, buf.as_mut_ptr()): the kernel entry
InvokeSyscall(t) ==
    /\ pc[t] = "invoke"
    /\ ~entry[t].some
    /\ \E rv \in RetValues, ts \in KernelTimes :
        /\ ret' = [ret EXCEPT ![t] = rv]
        /\ buf' = [buf EXCEPT ![t] = IF rv = 0 THEN ts ELSE @]
        /\ pc' = [pc EXCEPT ![t] = after_invoke(rv)]
    /\ sysN' = [sysN EXCEPT ![t] = @ + 1]
    /\ UNCHANGED <<vdso_sym, mo, seen, loaded, ptr, entry, fastN, result,
                   calls, arithVars>>

\* .map(|_| buf.assume_init()) and the return to the caller; the locals of
\* clock_gettime_vsyscall are gone
Return(t) ==
    /\ pc[t] = "ret"
    /\ result' = [result EXCEPT ![t] = from_ret(ret[t], buf[t])]
    /\ calls' = [calls EXCEPT ![t] = @ + 1]
    /\ pc' = [pc EXCEPT ![t] = "idle"]
    /\ loaded' = [loaded EXCEPT ![t] = UNINIT]
    /\ ptr' = [ptr EXCEPT ![t] = UNINIT]
    /\ UNCHANGED <<vdso_sym, mo, seen, entry, fastN, sysN, ret, buf,
                   arithVars>>

Next ==
    \E t \in Threads :
        \/ Now(t)
        \/ Load(t)
        \/ Resolve(t)
        \/ Store(t)
        \/ InvokeFast(t)
        \/ InvokeSyscall(t)
        \/ Return(t)

Spec == Init /\ [][Next]_vars

----------------------------------------------------------------------------
(* Drivers of the arithmetic: the operands are drawn in the initial state   *)
(* and each action is one call of the function under test.                  *)

CacheOff == vdso_sym = UNINIT /\ CacheIdle

SubInit ==
    /\ CacheOff
    /\ a \in Timespecs
    /\ b \in Timespecs
    /\ d = [secs |-> ZZero, nanos |-> 0]
    /\ overflow_checks \in BOOLEAN
    /\ r = NoSub
    /\ r2 = NoSub
    /\ step = "start"

\* a.sub_timespec(&b)
CallSubTimespec ==
    /\ step = "start"
    /\ r' = sub_timespec(a, b, overflow_checks)
    /\ step' = "called"
    /\ UNCHANGED <<cacheVars, a, b, d, overflow_checks, r2>>

\* b.sub_timespec(&a)
CallSubTimespecRev ==
    /\ step = "called"
    /\ r2' = sub_timespec(b, a, overflow_checks)
    /\ step' = "reversed"
    /\ UNCHANGED <<cacheVars, a, b, d, overflow_checks, r>>

SubNext == CallSubTimespec \/ CallSubTimespecRev

SpecSub == SubInit /\ [][SubNext]_vars

DurInit ==
    /\ CacheOff
    /\ a \in Timespecs
    /\ b = new(ZZero, 0)
    /\ d \in Durations
    /\ overflow_checks = FALSE
    /\ r = NoTs
    /\ r2 = NoTs
    /\ step = "start"

\* a.checked_add_duration(&d)
CallCheckedAdd ==
    /\ step = "start"
    /\ r' = checked_add_duration(a, d)
    /\ step' = "added"
    /\ UNCHANGED <<cacheVars, a, b, d, overflow_checks, r2>>

\* a.checked_sub_duration(&d)
CallCheckedSub ==
    /\ step = "start"
    /\ r' = checked_sub_duration(a, d)
    /\ step' = "subbed"
    /\ UNCHANGED <<cacheVars, a, b, d, overflow_checks, r2>>

\* a.checked_add_duration(&d).and_then(|t| t.checked_sub_duration(&d))
CallSubBack ==
    /\ step = "added"
    /\ r.tag = "Some"
    /\ r2' = checked_sub_duration(new(r.tv_sec, r.tv_nsec), d)
    /\ step' = "roundtrip"
    /\ UNCHANGED <<cacheVars, a, b, d, overflow_checks, r>>

DurNext == CallCheckedAdd \/ CallCheckedSub \/ CallSubBack

SpecDur == DurInit /\ [][DurNext]_vars

----------------------------------------------------------------------------
(* Properties.                                                              *)

\* exact nanosecond counts
TsTotal(ts)   == ZAdd(ZShift(ts.tv_sec), ZInt(ts.tv_nsec))
DurTotal(dur) == ZAdd(ZShift(dur.secs), ZInt(dur.nanos))
ValidNsec(ts) == ts.tv_nsec < NSEC_PER_SEC

\* the answer every caller should get from a resolver answering p
Answer(p) == IF p = UNINIT THEN NoneFn ELSE SomeFn(p)
Finished(t) == pc[t] = "idle" /\ calls[t] > 0

\* C1: the slot starts unresolved (null); every store leaves it resolved
\* (the sentinel or an address), and once it is resolved no step changes it.
C1_SlotMonotonic ==
    /\ Slot = UNINIT
    /\ [][ /\ (Slot # UNINIT => Slot' = Slot)
           /\ (mo' # mo => Slot' # UNINIT) ]_vars

\* two threads raced through the resolution and both stored
C1_Witness == Len(mo) >= 3 /\ Slot # UNINIT

\* C2: with a resolver that always gives the same answer, every call of
\* clock_gettime_vsyscall returns that answer (None for null, Some(address)
\* otherwise), never the null or sentinel encoding as an entry point, and
\* the same in every thread.
C2_SameAnswer ==
    \A t \in Threads :
        (pc[t] \in {"invoke", "ret"} \/ Finished(t)) =>
            /\ entry[t] = Answer(vdso_sym)
            /\ entry[t].some => entry[t].f \notin {UNINIT, INIT_NULL}

\* both stored after racing, and a thread has since answered from the cache
C2_Witness ==
    /\ Len(mo) >= 3
    /\ \E t \in Threads : calls[t] >= 1 /\ pc[t] = "invoke" /\ loaded[t] # UNINIT

\* C3: a call of now makes exactly one time-source invocation, the fast entry
\* when the cache gave an address and the kernel entry otherwise, and returns
\* that invocation's error or the timestamp it wrote.
C3_OneInvocation ==
    \A t \in Threads :
        /\ fastN[t] + sysN[t] <= 1
        /\ (pc[t] = "ret" \/ Finished(t)) =>
            /\ fastN[t] + sysN[t] = 1
            /\ (entry[t].some <=> fastN[t] = 1)
        /\ Finished(t) =>
            /\ (ret[t] < 0 => result[t].tag = "Err" /\ result[t].val = 0 - ret[t])
            /\ (ret[t] >= 0 => result[t].tag = "Ok" /\ result[t].val = buf[t])

\* the call that has just resolved the slot to absent made its one kernel
\* entry, which failed, while another call has already returned an error
C3_Witness ==
    \E t, u \in Threads :
        /\ pc[t] = "ret" /\ loaded[t] = UNINIT /\ Slot = INIT_NULL
        /\ sysN[t] = 1 /\ ret[t] < 0
        /\ Finished(u) /\ result[u].tag = "Err"

\* C4: for operands with nanoseconds below 10^9, a.sub_timespec(b) is Ok(d)
\* exactly when a >= b and Err(d) exactly when a < b, with d the exact
\* magnitude of the difference and d.subsec_nanos below 10^9.
C4_SubExact ==
    (step \in {"called", "reversed"} /\ ValidNsec(a) /\ ValidNsec(b)) =>
        /\ (r.tag = "Ok" <=> ZLeq(TsTotal(b), TsTotal(a)))
        /\ (r.tag = "Err" <=> ZLess(TsTotal(a), TsTotal(b)))
        /\ r.nanos < NSEC_PER_SEC
        /\ DurTotal(r) = ZAbs(ZSub(TsTotal(a), TsTotal(b)))

\* C5: sub_timespec is antisymmetric: Ok(d) one way is Err(d) the other way
\* with the same d, and equal operands give Ok(zero) both ways.
C5_Antisymmetric ==
    step = "reversed" =>
        /\ (~eq(a, b) /\ r.tag = "Ok") =>
              r2.tag = "Err" /\ r2.secs = r.secs /\ r2.nanos = r.nanos
        /\ (~eq(a, b) /\ r.tag = "Err") =>
              r2.tag = "Ok" /\ r2.secs = r.secs /\ r2.nanos = r.nanos
        /\ eq(a, b) =>
              /\ r.tag = "Ok" /\ r.secs = ZZero /\ r.nanos = 0
              /\ r2.tag = "Ok" /\ r2.secs = ZZero /\ r2.nanos = 0

\* a is earlier than b and the later operand has the smaller nanoseconds
C5_Witness ==
    /\ step = "reversed"
    /\ r.tag = "Err" /\ r2.tag = "Ok"
    /\ b.tv_nsec < a.tv_nsec
    /\ r.secs # ZZero

\* C6: a.checked_add_duration(d), a's nanoseconds below 10^9, is None when
\* d.secs exceeds i64::MAX, when a.secs + d.secs leaves i64, or when the carry
\* of one second leaves i64; otherwise it is Some(t), t the exact sum with
\* t's nanoseconds below 10^9.
C6_AddExact ==
    (step = "added" /\ ValidNsec(a)) =>
        LET sum   == ZAdd(a.tv_sec, d.secs)
            carry == a.tv_nsec + d.nanos >= NSEC_PER_SEC
            none  == \/ ZLess(I64_MAX, d.secs)
                     \/ ~InI64(sum)
                     \/ carry /\ ~InI64(ZAdd(sum, ZOne))
        IN  IF none THEN r.tag = "None"
            ELSE /\ r.tag = "Some"
                 /\ r.tv_nsec < NSEC_PER_SEC
                 /\ TsTotal(r) = ZAdd(TsTotal(a), DurTotal(d))

\* the seconds sum fits but the carry of one second overflows
C6_Witness ==
    /\ step = "added" /\ ValidNsec(a)
    /\ a.tv_nsec + d.nanos >= NSEC_PER_SEC
    /\ r.tag = "None" /\ a.tv_sec = ZSub(I64_MAX, ZOne) /\ d.secs = ZOne

\* C7: a.checked_sub_duration(d), a's nanoseconds below 10^9, is None when
\* d.secs exceeds i64::MAX, when a.secs - d.secs leaves i64, or when the
\* borrow of one second leaves i64; otherwise it is Some(t), t the exact
\* difference with t's nanoseconds below 10^9.
C7_SubExact ==
    (step = "subbed" /\ ValidNsec(a)) =>
        LET diff   == ZSub(a.tv_sec, d.secs)
            borrow == a.tv_nsec < d.nanos
            none   == \/ ZLess(I64_MAX, d.secs)
                      \/ ~InI64(diff)
                      \/ borrow /\ ~InI64(ZSub(diff, ZOne))
        IN  IF none THEN r.tag = "None"
            ELSE /\ r.tag = "Some"
                 /\ r.tv_nsec < NSEC_PER_SEC
                 /\ TsTotal(r) = ZSub(TsTotal(a), DurTotal(d))

\* (1, 0) minus one nanosecond has borrowed
C7_Witness ==
    /\ step = "subbed"
    /\ a = new(ZOne, 0)
    /\ d = [secs |-> ZZero, nanos |-> 1]
    /\ r = SomeTs(ZZero, NSEC_PER_SEC - 1)

\* C8: when a.checked_add_duration(d) is Some(t), a's nanoseconds below 10^9,
\* t.checked_sub_duration(d) is Some(a).
C8_AddSubInverse ==
    (step = "roundtrip" /\ ValidNsec(a)) =>
        r2 = SomeTs(a.tv_sec, a.tv_nsec)

\* a round trip through an addition that carried
C8_Witness ==
    /\ step = "roundtrip" /\ ValidNsec(a)
    /\ a.tv_nsec + d.nanos >= NSEC_PER_SEC
    /\ d.secs # ZZero

\* the operands of the nanosecond-carry example
C9_Case ==
    /\ step = "added"
    /\ a = new(ZZero, NSEC_PER_SEC - 1)
    /\ d = [secs |-> ZZero, nanos |-> 2]

\* C9 as stated: (0, 999_999_999) plus 2 ns yields Timespec::new(1, 0).
C9_CarryAsStated == C9_Case => r = SomeTs(ZOne, 0)

\* C9 amended: (0, 999_999_999) plus 2 ns yields Timespec::new(1, 1).
C9_Carry == C9_Case => r = SomeTs(ZOne, 1)

C9_Witness == C9_Case /\ r.tag = "Some"

\* C10: no integer computation inside the arithmetic leaves the range of its
\* machine type unless the operation reports failure: a sub_timespec whose
\* i64 subtraction left the i64 range does not return a duration.
C10_NoSilentWrap ==
    step \in {"called", "reversed"} =>
        (r.wrapped => r.tag \notin {"Ok", "Err"})

====
